---------------------------- MODULE Spec2Model ----------------------------
(***************************************************************************)
(* A model of the JSON-RPC 2.0 codec of the json-rpc crate: identifiers,   *)
(* request and response envelopes, and the single-or-batch wrapper.         *)
(*                                                                         *)
(* JSON text is modelled by its syntax tree.  A number is kept as the      *)
(* literal that is written on the wire (sign, integer digits, fraction     *)
(* digits), so that writing a number and reading it back are two different *)
(* conversions.  An object is the sequence of its members in wire order,   *)
(* so that a repeated key and an unknown key are inputs like any other.    *)
(* Borrowed and owned strings (Cow) hold the same text and are not told    *)
(* apart.  Integer magnitudes stay far below 2^63, so the branches of the  *)
(* number parser that fall back to f64 on overflow are not reachable here. *)
(***************************************************************************)
EXTENDS Integers, Sequences, FiniteSets, TLC

VARIABLES
    wire,   \* the JSON document last put on the wire, or NoWire
    sent,   \* the in-memory value whose encoding is on the wire, or Nothing
    got,    \* the result of the last decode of the wire, or NotRead
    op,     \* the operation that acted last
    types,  \* the type parameters the last decode was instantiated with
    parsed  \* the result of UnknownParams::parse on the decoded request

vars == <<wire, sent, got, op, types, parsed>>

\* Largest integer magnitude that appears in a number on the wire or in memory.
MaxInt == 1
\* Largest number of requests in a batch document.
MaxBatch == 2

---------------------------------------------------------------------------
(* JSON syntax trees *)

JNull == [kind |-> "null"]
JBool(b) == [kind |-> "bool", b |-> b]
JStr(s) == [kind |-> "str", s |-> s]
\* A number literal: optional minus sign, integer digits, fraction digits
\* ("" when the literal has no fraction part).
JNum(neg, mag, frac) == [kind |-> "num", neg |-> neg, mag |-> mag, frac |-> frac]
JArr(items) == [kind |-> "arr", items |-> items]
JObj(members) == [kind |-> "obj", members |-> members]
Member(k, v) == [k |-> k, v |-> v]

Abs(n) == IF n < 0 THEN -n ELSE n

---------------------------------------------------------------------------
(* Results and deserializers *)

Ok(v) == [ok |-> TRUE, v |-> v]
\* A decode error: its kind and the offending value (or the field or the
\* message, as a JSON string).
Err(kind, what) == [ok |-> FALSE, err |-> kind, what |-> what]

\* Option<T>
None == [some |-> FALSE]
Some(x) == [some |-> TRUE, x |-> x]

\* A serde Deserializer is either positioned on a JSON value or is the
\* stand-in serde hands to a field's Deserialize impl when the key is missing.
JsonDeserializer(j) == [src |-> "json", j |-> j]
MissingFieldDeserializer(field) == [src |-> "missing", field |-> field]

\* Deserializer::deserialize_option: TRUE when visit_none is called.
\* serde_json calls visit_none on the literal null and visit_some otherwise;
\* the missing-field deserializer always calls visit_none.
deserialize_option_is_none(d) ==
    \/ d.src = "missing"
    \/ d.src = "json" /\ d.j.kind = "null"

---------------------------------------------------------------------------
(* Numbers: writing and reading literals *)

\* f64 values: a finite value is a whole number of halves; a non-finite one
\* is -inf, NaN or +inf (halves = -1, 0, 1).
Finite(h) == [fin |-> TRUE, halves |-> h]
NonFinite(s) == [fin |-> FALSE, halves |-> s]

serialize_i64(i) == JNum(i < 0, Abs(i), "")
serialize_u64(u) == JNum(FALSE, u, "")
\* serde_json writes a finite f64 in its shortest form, which always has a
\* fraction part or an exponent, and writes null for NaN and the infinities.
serialize_f64(f) ==
    IF f.fin
    THEN JNum(f.halves < 0, Abs(f.halves) \div 2,
              IF Abs(f.halves) % 2 = 1 THEN "5" ELSE "0")
    ELSE JNull

\* serde_json's classification of a number literal (ParserNumber).
ParserNumber(lit) ==
    IF lit.frac # ""
    THEN [class |-> "f64",
          f |-> Finite((IF lit.neg THEN -1 ELSE 1)
                       * (2 * lit.mag + (IF lit.frac = "5" THEN 1 ELSE 0)))]
    ELSE IF ~lit.neg THEN [class |-> "u64", n |-> lit.mag]
    ELSE IF lit.mag = 0 THEN [class |-> "f64", f |-> Finite(0)]
    ELSE [class |-> "i64", n |-> -lit.mag]

---------------------------------------------------------------------------
(* Identifiers (id.rs) *)

IdNull == [tag |-> "Null"]
IdStr(s) == [tag |-> "Str", s |-> s]
IdInt(i) == [tag |-> "Int", n |-> i]
IdUint(u) == [tag |-> "Uint", n |-> u]
IdFloat(f) == [tag |-> "Float", f |-> f]

Strings == {"a", "2.0"}
Floats == {Finite(h) : h \in -(2 * MaxInt + 1) .. (2 * MaxInt + 1)}
            \cup {NonFinite(s) : s \in {-1, 0, 1}}
Ids == {IdNull} \cup {IdStr(s) : s \in Strings}
         \cup {IdInt(i) : i \in -MaxInt .. MaxInt}
         \cup {IdUint(u) : u \in 0 .. MaxInt}
         \cup {IdFloat(f) : f \in Floats}

\* Id::reborrow: the same identifier, borrowing the string.
reborrow(id) ==
    CASE id.tag = "Null" -> IdNull
      [] id.tag = "Str" -> IdStr(id.s)
      [] id.tag = "Int" -> IdInt(id.n)
      [] id.tag = "Uint" -> IdUint(id.n)
      [] id.tag = "Float" -> IdFloat(id.f)

\* impl Serialize for Id
Id_serialize(id) ==
    CASE id.tag = "Null" -> JNull
      [] id.tag = "Float" -> serialize_f64(id.f)
      [] id.tag = "Str" -> JStr(id.s)
      [] id.tag = "Int" -> serialize_i64(id.n)
      [] id.tag = "Uint" -> serialize_u64(id.n)

\* An IdVisitor whose visit_i64 widens to Id::Float.
IdVisitor_visit_number_widen_i64(p) ==
    CASE p.class = "i64" -> Ok(IdFloat(Finite(2 * p.n)))
      [] p.class = "u64" -> Ok(IdUint(p.n))
      [] p.class = "f64" -> Ok(IdFloat(p.f))

\* IdVisitor::visit_i64, visit_u64 and visit_f64, on the parsed number p.
IdVisitor_visit_number(p) ==
    CASE p.class = "i64" -> Ok(IdInt(p.n))
      [] p.class = "u64" -> Ok(IdUint(p.n))
      [] p.class = "f64" -> Ok(IdFloat(p.f))

\* An IdVisitor whose visit_u64 builds Id::Int.
IdVisitor_visit_any_u64_as_int(j) ==
    CASE j.kind = "str" -> Ok(IdStr(j.s))
      [] j.kind = "num" /\ ParserNumber(j).class = "f64" -> Ok(IdFloat(ParserNumber(j).f))
      [] j.kind = "num" /\ ParserNumber(j).class # "f64" -> Ok(IdInt(ParserNumber(j).n))
      [] OTHER -> Err("invalid_type", j)

\* IdVisitor, driven by deserialize_any on a non-null JSON value: the visitor
\* has visit_*str, visit_i64, visit_u64 and visit_f64; every other visit_*
\* is serde's default, which is an invalid-type error.
IdVisitor_visit_any(j) ==
    CASE j.kind = "str" -> Ok(IdStr(j.s))
      [] j.kind = "num" -> IdVisitor_visit_number(ParserNumber(j))
      [] OTHER -> Err("invalid_type", j)

\* impl Deserialize for Id: deserializer.deserialize_option(IdVisitor), with
\* visit_none giving Id::Null and visit_some forwarding to deserialize_any.
Id_deserialize(d) ==
    IF deserialize_option_is_none(d)
    THEN Ok(IdNull)
    ELSE IdVisitor_visit_any(d.j)

---------------------------------------------------------------------------
(* Caller-supplied payload types (the P, T and E of Request and Response) *)

\* serde_json::Value, Option<u64> and u64 stand for the caller's types: one
\* that accepts every JSON value, one that accepts a missing key, one that
\* accepts neither null nor a missing key.
Types == {"Value", "OptU64", "U64"}
\* The parameter types a request is read with: the caller's types and
\* UnknownParams.
ParamTypes == Types \cup {"UnknownParams"}
\* The target types of UnknownParams::parse: the caller's types and the
\* sequence type Vec<u64>.
ParseTypes == Types \cup {"VecU64"}

VValue(j) == [ty |-> "Value", j |-> j]
VOptNone == [ty |-> "OptU64", some |-> FALSE, n |-> 0]
VOptSome(n) == [ty |-> "OptU64", some |-> TRUE, n |-> n]
VU64(n) == [ty |-> "U64", n |-> n]
VVecU64(items) == [ty |-> "VecU64", items |-> items]
\* UnknownParams(Option<&RawValue>): raw is None or Some of the raw JSON text
VUnknownParams(raw) == [ty |-> "UnknownParams", raw |-> raw]

\* The u64 visitor on the parsed number p of the literal j.
u64_visit_number(p, j) ==
    CASE p.class = "u64" -> Ok(VU64(p.n))
      [] p.class = "i64" -> Err("invalid_value", j)
      [] p.class = "f64" -> Err("invalid_type", j)

\* <u64 as Deserialize>::deserialize
u64_deserialize(d) ==
    IF d.src = "missing" THEN Err("missing_field", JStr(d.field))
    ELSE IF d.j.kind # "num" THEN Err("invalid_type", d.j)
    ELSE u64_visit_number(ParserNumber(d.j), d.j)

\* The i64 visitor on the parsed number p of the literal j.
i64_visit_number(p, j) ==
    IF p.class = "f64" THEN Err("invalid_type", j) ELSE Ok(p.n)

\* <i64 as Deserialize>::deserialize
i64_deserialize(d) ==
    IF d.src = "missing" THEN Err("missing_field", JStr(d.field))
    ELSE IF d.j.kind # "num" THEN Err("invalid_type", d.j)
    ELSE i64_visit_number(ParserNumber(d.j), d.j)

\* <Cow<str> as Deserialize>::deserialize with #[serde(borrow)]
Cow_str_deserialize(d) ==
    IF d.src = "missing" THEN Err("missing_field", JStr(d.field))
    ELSE IF d.j.kind = "str" THEN Ok(d.j.s)
    ELSE Err("invalid_type", d.j)

\* <Option<T> as Deserialize>::deserialize, given the result `inner` of
\* T::deserialize on the same deserializer (used by visit_some only).
Option_deserialize(d, inner) ==
    IF deserialize_option_is_none(d) THEN Ok(None)
    ELSE IF inner.ok THEN Ok(Some(inner.v))
    ELSE inner

RECURSIVE Vec_u64_visit_seq(_, _)
\* The first element's value r is pushed, or its error returned.
Vec_u64_push(items, acc, r) ==
    IF r.ok THEN Vec_u64_visit_seq(Tail(items), Append(acc, r.v.n)) ELSE r

\* VecVisitor::visit_seq for Vec<u64>
Vec_u64_visit_seq(items, acc) ==
    IF items = <<>> THEN Ok(VVecU64(acc))
    ELSE Vec_u64_push(items, acc, u64_deserialize(JsonDeserializer(Head(items))))

\* <Vec<u64> as Deserialize>::deserialize
Vec_u64_deserialize(d) ==
    IF d.src = "missing" THEN Err("missing_field", JStr(d.field))
    ELSE IF d.j.kind # "arr" THEN Err("invalid_type", d.j)
    ELSE Vec_u64_visit_seq(d.j.items, <<>>)

\* A &RawValue that accepts only the structured values, arrays and objects.
RawValue_deserialize_structured(d) ==
    IF d.src = "missing" THEN Err("missing_field", JStr(d.field))
    ELSE IF d.j.kind \in {"arr", "obj"} THEN Ok(d.j)
    ELSE Err("invalid_type", d.j)

\* <&RawValue as Deserialize>::deserialize: the text of the next JSON value,
\* whatever it is, is borrowed unparsed.
RawValue_deserialize(d) ==
    IF d.src = "missing" THEN Err("missing_field", JStr(d.field))
    ELSE Ok(d.j)

\* The newtype around the result r of Option<&RawValue>::deserialize.
UnknownParams_visit_newtype_struct(r) ==
    IF r.ok THEN Ok(VUnknownParams(r.v)) ELSE r

\* #[derive(Deserialize)] on UnknownParams: deserialize_newtype_struct, which
\* the missing-field deserializer answers with the missing-field error and
\* serde_json with visit_newtype_struct on the same value.
UnknownParams_deserialize(d) ==
    IF d.src = "missing" THEN Err("missing_field", JStr(d.field))
    ELSE UnknownParams_visit_newtype_struct(
             Option_deserialize(d, RawValue_deserialize(d)))

\* Option<u64> as a payload value, from the result r of Option<u64>::deserialize.
VOpt(r) ==
    IF ~r.ok THEN r
    ELSE IF r.v.some THEN Ok(VOptSome(r.v.x.n)) ELSE Ok(VOptNone)

\* A Value that reads a missing field as null.
Deser_missing_as_null(ty, d) ==
    CASE ty = "Value" ->
            IF d.src = "missing" THEN Ok(VValue(JNull)) ELSE Ok(VValue(d.j))
      [] ty = "OptU64" -> VOpt(Option_deserialize(d, u64_deserialize(d)))
      [] ty = "U64" -> u64_deserialize(d)
      [] ty = "VecU64" -> Vec_u64_deserialize(d)
      [] ty = "UnknownParams" -> UnknownParams_deserialize(d)

\* P::deserialize / T::deserialize / E::deserialize
Deser(ty, d) ==
    CASE ty = "Value" ->
            IF d.src = "missing" THEN Err("missing_field", JStr(d.field))
            ELSE Ok(VValue(d.j))
      [] ty = "OptU64" -> VOpt(Option_deserialize(d, u64_deserialize(d)))
      [] ty = "U64" -> u64_deserialize(d)
      [] ty = "VecU64" -> Vec_u64_deserialize(d)
      [] ty = "UnknownParams" -> UnknownParams_deserialize(d)

\* P::serialize / T::serialize / E::serialize
Ser(v) ==
    CASE v.ty = "Value" -> v.j
      [] v.ty = "OptU64" -> IF v.some THEN serialize_u64(v.n) ELSE JNull
      [] v.ty = "U64" -> serialize_u64(v.n)
      [] v.ty = "VecU64" -> JArr([i \in DOMAIN v.items |-> serialize_u64(v.items[i])])
      [] v.ty = "UnknownParams" -> IF v.raw.some THEN v.raw.x ELSE JNull

---------------------------------------------------------------------------
(* Deferred parameters (unknown_params.rs) *)

\* A get that reads the missing text as null.
UnknownParams_get_null(params) ==
    IF params.raw.some THEN params.raw.x ELSE JNull

\* self.0.map_or("[]", RawValue::get): the raw text, or the text of the
\* empty array when there is none.
UnknownParams_get(params) ==
    IF params.raw.some THEN params.raw.x ELSE JArr(<<>>)

\* A parse that parses as serde_json::Value whatever the target type.
UnknownParams_parse_as_value(T, params) ==
    Deser("Value", JsonDeserializer(UnknownParams_get(params)))

\* UnknownParams::parse::<T>: serde_json::from_str::<T> on that text
UnknownParams_parse(T, params) ==
    Deser(T, JsonDeserializer(UnknownParams_get(params)))

---------------------------------------------------------------------------
(* Request envelope (request.rs) *)

\* A deserialize_id that reads the key as a plain Option<Id>.
deserialize_id_plain_option(d) == Option_deserialize(d, Id_deserialize(d))

\* The last expression of deserialize_id, on the result r of
\* Option<Option<Id>>::deserialize: the outer None becomes Some(Id::Null).
deserialize_id_match(r) ==
    IF ~r.ok THEN r
    ELSE IF r.v.some THEN Ok(r.v.x)
    ELSE Ok(Some(IdNull))

\* deserialize_id: Option<Option<Id>>::deserialize, then the outer None
\* becomes Some(Id::Null).
deserialize_id(d) ==
    deserialize_id_match(Option_deserialize(d, Option_deserialize(d, Id_deserialize(d))))

---------------------------------------------------------------------------
(* #[derive(Deserialize)] on the Incoming* structs *)

Structs == {"IncomingRequest", "IncomingResponse", "IncomingError", "raw_IncomingRequest"}

\* The fields of each struct, in declaration order.
FieldsOf(S) ==
    CASE S = "IncomingRequest" -> <<"jsonrpc", "method", "params", "id">>
      [] S = "IncomingResponse" -> <<"jsonrpc", "result", "error", "id">>
      [] S = "IncomingError" -> <<"code", "message", "data">>
      [] S = "raw_IncomingRequest" -> <<"jsonrpc", "method", "params", "id">>

\* Fields carrying #[serde(default)]; every such field is an Option, whose
\* default is None.
HasDefault(S, f) ==
    \/ S = "IncomingRequest" /\ f = "id"
    \/ S = "IncomingResponse" /\ f \in {"result", "error"}
    \/ S = "IncomingError" /\ f = "data"
    \/ S = "raw_IncomingRequest" /\ f = "id"

RECURSIVE derive_deserialize(_, _, _)

\* The value of field f of struct S read from deserializer d, with the
\* struct's type parameters tys (<<P>>, <<T, E>> and <<E>>).
FieldDeserialize(S, f, tys, d) ==
    CASE S = "IncomingRequest" /\ f = "jsonrpc" -> Cow_str_deserialize(d)
      [] S = "IncomingRequest" /\ f = "method" -> Cow_str_deserialize(d)
      [] S = "IncomingRequest" /\ f = "params" -> Deser(tys[1], d)
      [] S = "IncomingRequest" /\ f = "id" -> deserialize_id(d)
      [] S = "IncomingResponse" /\ f = "jsonrpc" -> Cow_str_deserialize(d)
      [] S = "IncomingResponse" /\ f = "result" ->
            Option_deserialize(d, Deser(tys[1], d))
      [] S = "IncomingResponse" /\ f = "error" ->
            Option_deserialize(d, derive_deserialize("IncomingError", <<tys[2]>>, d))
      [] S = "IncomingResponse" /\ f = "id" -> Id_deserialize(d)
      [] S = "IncomingError" /\ f = "code" -> i64_deserialize(d)
      [] S = "IncomingError" /\ f = "message" -> Cow_str_deserialize(d)
      [] S = "IncomingError" /\ f = "data" ->
            Option_deserialize(d, Deser(tys[1], d))
      [] S = "raw_IncomingRequest" /\ f = "jsonrpc" -> Cow_str_deserialize(d)
      [] S = "raw_IncomingRequest" /\ f = "method" -> Cow_str_deserialize(d)
      [] S = "raw_IncomingRequest" /\ f = "params" -> Deser(tys[1], d)
      [] S = "raw_IncomingRequest" /\ f = "id" ->
            Option_deserialize(d, Id_deserialize(d))

Unset == [set |-> FALSE]
SetTo(v) == [set |-> TRUE, v |-> v]

SeqToSet(s) == {s[i] : i \in DOMAIN s}

\* The struct value once every field is set.
Built(S, acc) == [f \in SeqToSet(FieldsOf(S)) |-> acc[f].v]

RECURSIVE derive_finish(_, _, _, _)
\* A field's value r is stored, or its error returned.
derive_finish_field(S, tys, acc, i, r) ==
    IF r.ok
    THEN derive_finish(S, tys, [acc EXCEPT ![FieldsOf(S)[i]] = SetTo(r.v)], i + 1)
    ELSE r

\* After the last member: every field not seen takes its default, or what
\* its Deserialize impl makes of a missing field.  Fields are filled in
\* declaration order and the first error is returned.
derive_finish(S, tys, acc, i) ==
    IF i > Len(FieldsOf(S)) THEN Ok(Built(S, acc))
    ELSE IF acc[FieldsOf(S)[i]].set THEN derive_finish(S, tys, acc, i + 1)
    ELSE IF HasDefault(S, FieldsOf(S)[i])
    THEN derive_finish(S, tys, [acc EXCEPT ![FieldsOf(S)[i]] = SetTo(None)], i + 1)
    ELSE derive_finish_field(S, tys, acc, i,
             FieldDeserialize(S, FieldsOf(S)[i], tys,
                              MissingFieldDeserializer(FieldsOf(S)[i])))

RECURSIVE derive_visit_map(_, _, _, _)
\* The value r of the first member is stored, or its error returned.
derive_visit_map_field(S, tys, members, acc, r) ==
    IF r.ok
    THEN derive_visit_map(S, tys, Tail(members),
                          [acc EXCEPT ![Head(members).k] = SetTo(r.v)])
    ELSE r

\* The derived visit_map: members are taken in wire order; a key seen twice
\* is an error, a key that names no field is skipped.
derive_visit_map(S, tys, members, acc) ==
    IF members = <<>> THEN derive_finish(S, tys, acc, 1)
    ELSE IF Head(members).k \notin SeqToSet(FieldsOf(S))
    THEN derive_visit_map(S, tys, Tail(members), acc)
    ELSE IF acc[Head(members).k].set
    THEN Err("duplicate_field", JStr(Head(members).k))
    ELSE derive_visit_map_field(S, tys, members, acc,
             FieldDeserialize(S, Head(members).k, tys,
                              JsonDeserializer(Head(members).v)))

RECURSIVE derive_visit_seq(_, _, _, _, _)
\* The value r of the i-th element is stored, or its error returned.
derive_visit_seq_field(S, tys, items, acc, i, r) ==
    IF r.ok
    THEN derive_visit_seq(S, tys, items,
                          [acc EXCEPT ![FieldsOf(S)[i]] = SetTo(r.v)], i + 1)
    ELSE r

\* The derived visit_seq: fields are taken by position; a field past the end
\* of the array takes its default or is an invalid-length error; elements
\* left over after the last field are an error of the JSON deserializer.
derive_visit_seq(S, tys, items, acc, i) ==
    IF i > Len(FieldsOf(S))
    THEN IF Len(items) > Len(FieldsOf(S))
         THEN Err("trailing_characters", JArr(items))
         ELSE Ok(Built(S, acc))
    ELSE IF i > Len(items)
    THEN IF HasDefault(S, FieldsOf(S)[i])
         THEN derive_visit_seq(S, tys, items,
                               [acc EXCEPT ![FieldsOf(S)[i]] = SetTo(None)], i + 1)
         ELSE Err("invalid_length", JStr(FieldsOf(S)[i]))
    ELSE derive_visit_seq_field(S, tys, items, acc, i,
             FieldDeserialize(S, FieldsOf(S)[i], tys, JsonDeserializer(items[i])))

\* No field set yet.
NoFields(S) == [f \in SeqToSet(FieldsOf(S)) |-> Unset]

\* Deserializer::deserialize_struct with the derived visitor: serde_json
\* hands an object to visit_map and an array to visit_seq.
derive_deserialize(S, tys, d) ==
    IF d.src = "missing" THEN Err("missing_field", JStr(d.field))
    ELSE CASE d.j.kind = "obj" -> derive_visit_map(S, tys, d.j.members, NoFields(S))
           [] d.j.kind = "arr" -> derive_visit_seq(S, tys, d.j.items, NoFields(S), 1)
           [] OTHER -> Err("invalid_type", d.j)

---------------------------------------------------------------------------
(* Request envelope (request.rs), continued *)

\* crate::Request
Request(method, params, id) == [method |-> method, params |-> params, id |-> id]

\* An into_request without the version check.
IncomingRequest_into_request_any_version(inc) ==
    Ok(Request(inc.method, inc.params, inc.id))

\* IncomingRequest::into_request
IncomingRequest_into_request(inc) ==
    IF inc.jsonrpc # "2.0"
    THEN Err("invalid_value", JStr(inc.jsonrpc))
    ELSE Ok(Request(inc.method, inc.params, inc.id))

\* .and_then(IncomingRequest::into_request) on the derived decode's result r
Request_and_then_into_request(r) ==
    IF r.ok THEN IncomingRequest_into_request(r.v) ELSE r

\* impl Deserialize for Request
Request_deserialize(P, d) ==
    Request_and_then_into_request(derive_deserialize("IncomingRequest", <<P>>, d))

\* raw.rs, IncomingRequest::into_request
raw_IncomingRequest_into_request(inc) ==
    IF inc.jsonrpc # "2.0"
    THEN Err("invalid_value", JStr(inc.jsonrpc))
    ELSE Ok(Request(inc.method, inc.params, inc.id))

\* raw.rs, .and_then(IncomingRequest::into_request) on the derived decode's
\* result r
raw_and_then_into_request(r) ==
    IF r.ok THEN raw_IncomingRequest_into_request(r.v) ELSE r

\* raw::deserialize_request, which lib.rs calls from impl Deserialize for
\* Request
raw_deserialize_request(P, d) ==
    raw_and_then_into_request(derive_deserialize("raw_IncomingRequest", <<P>>, d))

\* A from_request that drops a null identifier.
OutgoingRequest_from_request_drop_null(req) ==
    [jsonrpc |-> "2.0",
     method |-> req.method,
     params |-> req.params,
     id |-> IF req.id.some /\ req.id.x.tag # "Null" THEN Some(reborrow(req.id.x))
            ELSE None]

\* OutgoingRequest::from_request
OutgoingRequest_from_request(req) ==
    [jsonrpc |-> "2.0",
     method |-> req.method,
     params |-> req.params,
     id |-> IF req.id.some THEN Some(reborrow(req.id.x)) ELSE None]

\* An OutgoingRequest without skip_serializing_if on id.
OutgoingRequest_serialize_no_skip(out) ==
    JObj(<<Member("jsonrpc", JStr(out.jsonrpc)),
           Member("method", JStr(out.method)),
           Member("params", Ser(out.params)),
           Member("id", IF out.id.some THEN Id_serialize(out.id.x) ELSE JNull)>>)

\* #[derive(Serialize)] on OutgoingRequest: the fields in declaration order,
\* id skipped when it is None.
OutgoingRequest_serialize(out) ==
    JObj(<<Member("jsonrpc", JStr(out.jsonrpc)),
           Member("method", JStr(out.method)),
           Member("params", Ser(out.params))>>
         \o (IF out.id.some THEN <<Member("id", Id_serialize(out.id.x))>> ELSE <<>>))

\* impl Serialize for Request
Request_serialize(req) == OutgoingRequest_serialize(OutgoingRequest_from_request(req))

---------------------------------------------------------------------------
(* Response envelope (response.rs) *)

\* Result<T, Error<E>>
Success(value) == [success |-> TRUE, value |-> value]
Failure(error) == [success |-> FALSE, error |-> error]

\* crate::Error
Error(code, message, data) == [code |-> code, message |-> message, data |-> data]

\* crate::Response
Response(result, id) == [result |-> result, id |-> id]

\* id_as_ref
id_as_ref(id) ==
    CASE id.tag = "Null" -> IdNull
      [] id.tag = "Float" -> IdFloat(id.f)
      [] id.tag = "Str" -> IdStr(id.s)
      [] id.tag = "Int" -> IdInt(id.n)
      [] id.tag = "Uint" -> IdUint(id.n)

\* IncomingResponse::into_response
IncomingResponse_into_response(inc) ==
    IF inc.jsonrpc # "2.0"
    THEN Err("invalid_value", JStr(inc.jsonrpc))
    ELSE CASE inc.result.some /\ ~inc.error.some ->
                Ok(Response(Success(inc.result.x), inc.id))
           [] ~inc.result.some /\ inc.error.some ->
                Ok(Response(Failure(Error(inc.error.x.code, inc.error.x.message,
                                          inc.error.x.data)),
                            inc.id))
           [] inc.result.some /\ inc.error.some ->
                Err("custom",
                    JStr("response cannot contain both result and error fields"))
           [] ~inc.result.some /\ ~inc.error.some ->
                Err("custom",
                    JStr("response must contain either result or error field"))

\* .and_then(IncomingResponse::into_response) on the derived decode's result r
Response_and_then_into_response(r) ==
    IF r.ok THEN IncomingResponse_into_response(r.v) ELSE r

\* impl Deserialize for Response
Response_deserialize(T, E, d) ==
    Response_and_then_into_response(
        derive_deserialize("IncomingResponse", <<T, E>>, d))

\* OutogingResponse::from_response
OutogingResponse_from_response(response) ==
    [jsonrpc |-> "2.0",
     result |-> IF response.result.success THEN Some(response.result.value) ELSE None,
     error |-> IF response.result.success THEN None
               ELSE Some([code |-> response.result.error.code,
                          message |-> response.result.error.message,
                          data |-> response.result.error.data]),
     id |-> id_as_ref(response.id)]

\* An OutgoingError without skip_serializing_if on data.
OutgoingError_serialize_no_skip(e) ==
    JObj(<<Member("code", serialize_i64(e.code)),
           Member("message", JStr(e.message)),
           Member("data", IF e.data.some THEN Ser(e.data.x) ELSE JNull)>>)

\* #[derive(Serialize)] on OutgoingError: data skipped when it is None.
OutgoingError_serialize(e) ==
    JObj(<<Member("code", serialize_i64(e.code)),
           Member("message", JStr(e.message))>>
         \o (IF e.data.some THEN <<Member("data", Ser(e.data.x))>> ELSE <<>>))

\* #[derive(Serialize)] on OutogingResponse: result and error skipped when
\* they are None.
OutogingResponse_serialize(out) ==
    JObj(<<Member("jsonrpc", JStr(out.jsonrpc))>>
         \o (IF out.result.some THEN <<Member("result", Ser(out.result.x))>> ELSE <<>>)
         \o (IF out.error.some
             THEN <<Member("error", OutgoingError_serialize(out.error.x))>>
             ELSE <<>>)
         \o <<Member("id", Id_serialize(out.id))>>)

\* impl Serialize for Response
Response_serialize(response) ==
    OutogingResponse_serialize(OutogingResponse_from_response(response))

---------------------------------------------------------------------------
(* Single request or batch (batch.rs) *)

\* MaybeBatchedRequests
Single(request) == [variant |-> "Single", single |-> request]
Batch(requests) == [variant |-> "Batch", batch |-> requests]

\* <Vec<Request<P>> as Serialize>::serialize: the requests in order
Vec_Request_serialize(requests) ==
    JArr([i \in DOMAIN requests |-> Request_serialize(requests[i])])

\* A serialize that writes a single request as an array of one.
MaybeBatchedRequests_serialize_wrap_single(m) ==
    CASE m.variant = "Batch" -> Vec_Request_serialize(m.batch)
      [] m.variant = "Single" -> Vec_Request_serialize(<<m.single>>)

\* impl Serialize for MaybeBatchedRequests
MaybeBatchedRequests_serialize(m) ==
    CASE m.variant = "Batch" -> Vec_Request_serialize(m.batch)
      [] m.variant = "Single" -> Request_serialize(m.single)

RECURSIVE Vec_Request_deserialize(_, _, _)
\* The first element's request r is pushed, or its error returned.
Vec_Request_push(P, items, acc, r) ==
    IF r.ok THEN Vec_Request_deserialize(P, Tail(items), Append(acc, r.v)) ELSE r

\* Vec<Request<P>>::deserialize over the elements of the array: the elements
\* are decoded in order and the first error ends the decode.
Vec_Request_deserialize(P, items, acc) ==
    IF items = <<>> THEN Ok(acc)
    ELSE Vec_Request_push(P, items, acc,
             Request_deserialize(P, JsonDeserializer(Head(items))))

\* .map(MaybeBatchedRequests::Batch) on the result r of Vec::deserialize
map_Batch(r) == IF r.ok THEN Ok(Batch(r.v)) ELSE r

\* .map(MaybeBatchedRequests::Single) on the result r of Request::deserialize
map_Single(r) == IF r.ok THEN Ok(Single(r.v)) ELSE r

\* A .map that unwraps a Vec of one request.
map_unwrap_one(r) ==
    IF ~r.ok THEN r
    ELSE IF Len(r.v) = 1 THEN Ok(Single(r.v[1])) ELSE Ok(Batch(r.v))

\* A visit_seq that unwraps an array of one request.
MaybeBatchedVisitor_visit_seq_unwrap_one(P, items) ==
    map_unwrap_one(Vec_Request_deserialize(P, items, <<>>))

\* MaybeBatchedVisitor::visit_seq
MaybeBatchedVisitor_visit_seq(P, items) ==
    map_Batch(Vec_Request_deserialize(P, items, <<>>))

\* MaybeBatchedVisitor::visit_map: the request is decoded from the object's
\* members (MapAccessDeserializer hands them to the derived visit_map).
MaybeBatchedVisitor_visit_map(P, object) ==
    map_Single(Request_deserialize(P, JsonDeserializer(object)))

\* impl Deserialize for MaybeBatchedRequests: deserialize_any with a visitor
\* that has visit_seq and visit_map only.
MaybeBatchedRequests_deserialize(P, d) ==
    IF d.src = "missing" THEN Err("missing_field", JStr(d.field))
    ELSE CASE d.j.kind = "arr" -> MaybeBatchedVisitor_visit_seq(P, d.j.items)
           [] d.j.kind = "obj" -> MaybeBatchedVisitor_visit_map(P, d.j)
           [] OTHER -> Err("invalid_type", d.j)

---------------------------------------------------------------------------
(* Documents a peer can put on the wire *)

Absent == [kind |-> "absent"]

Reverse(s) == [i \in 1 .. Len(s) |-> s[Len(s) + 1 - i]]

\* The members of an object with the keys `keys`, in that order, leaving out
\* the keys that f maps to Absent.
MembersOf(keys, f) ==
    LET present == SelectSeq(keys, LAMBDA k : f[k] # Absent) IN
    [i \in 1 .. Len(present) |-> Member(present[i], f[present[i]])]

\* Every number literal within the bound.
NumLits == {JNum(neg, mag, frac) :
                neg \in BOOLEAN, mag \in 0 .. MaxInt, frac \in {"", "0", "5"}}

JsonrpcVals == {JStr("2.0"), JStr("1.0"), JNull}
MethodVals == {JStr("a"), JNull}
ParamsVals ==
    {JNull, JArr(<<>>), JArr(<<JNum(FALSE, 1, "")>>), JNum(FALSE, 1, ""), JStr("a")}
IdVals == {JNull, JStr("a"), JBool(TRUE), JArr(<<>>)} \cup NumLits

\* One more member after the others: a key given twice, or an unknown key.
RequestExtras ==
    {<<>>, <<Member("jsonrpc", JStr("2.0"))>>, <<Member("method", JStr("a"))>>,
     <<Member("params", JArr(<<>>))>>, <<Member("id", JNull)>>,
     <<Member("x", JNull)>>}

\* Request objects: every combination of absent and present keys, in the
\* order the encoder writes them or in the reverse order.
RequestDocs ==
    {JObj(IF rev THEN Reverse(MembersOf(<<"jsonrpc", "method", "params", "id">>, f) \o x)
          ELSE MembersOf(<<"jsonrpc", "method", "params", "id">>, f) \o x) :
        f \in [jsonrpc : JsonrpcVals \cup {Absent},
               method : MethodVals \cup {Absent},
               params : ParamsVals \cup {Absent},
               id : IdVals \cup {Absent}],
        x \in RequestExtras,
        rev \in BOOLEAN}

\* Requests written as arrays, which the derived struct visitor also accepts.
RequestSeqDocs ==
    {JArr(SubSeq(<<JStr(v), JStr("a"), JArr(<<>>), i, JNull>>, 1, n)) :
        v \in {"2.0", "1.0"}, i \in {JNull, JNum(FALSE, 1, "")}, n \in 0 .. 5}

Scalars == {JNull, JBool(TRUE), JStr("a")} \cup NumLits

\* In-memory payload values a caller can hold.
Payloads ==
    {VValue(j) : j \in {JNull, JArr(<<>>), JArr(<<JNum(FALSE, 1, "")>>)}}
        \cup {VOptNone} \cup {VOptSome(n) : n \in 0 .. MaxInt}
        \cup {VU64(n) : n \in 0 .. MaxInt}

Methods == {"a", "b"}

Requests ==
    {Request(m, p, i) :
        m \in Methods, p \in Payloads, i \in {None} \cup {Some(id) : id \in Ids}}

ErrorVals ==
    {JNull, JNum(FALSE, 1, ""),
     JObj(<<Member("code", JNum(TRUE, 1, "")), Member("message", JStr("a"))>>),
     JObj(<<Member("code", JNum(FALSE, 1, "")), Member("message", JStr("a")),
            Member("data", JNum(FALSE, 1, ""))>>),
     JObj(<<Member("code", JNum(FALSE, 1, "")), Member("message", JStr("a")),
            Member("data", JNull)>>),
     JObj(<<Member("code", JNum(FALSE, 1, "5")), Member("message", JStr("a"))>>),
     JObj(<<Member("code", JNum(FALSE, 1, ""))>>)}
ResultVals == {JNull, JNum(FALSE, 1, ""), JStr("a")}
ResponseIdVals == {JNull, JStr("a"), JBool(TRUE), JNum(FALSE, 1, ""), JNum(TRUE, 1, "")}

ResponseExtras ==
    {<<>>, <<Member("jsonrpc", JStr("2.0"))>>, <<Member("result", JNull)>>,
     <<Member("id", JNull)>>, <<Member("x", JNull)>>}

\* Response objects, built like the request objects.
ResponseDocs ==
    {JObj(IF rev THEN Reverse(MembersOf(<<"jsonrpc", "result", "error", "id">>, f) \o x)
          ELSE MembersOf(<<"jsonrpc", "result", "error", "id">>, f) \o x) :
        f \in [jsonrpc : {JStr("2.0"), JStr("1.0"), Absent},
               result : ResultVals \cup {Absent},
               error : ErrorVals \cup {Absent},
               id : ResponseIdVals \cup {Absent}],
        x \in ResponseExtras,
        rev \in BOOLEAN}

ErrorCodes == -MaxInt .. MaxInt

Errors ==
    {Error(c, m, None) : c \in ErrorCodes, m \in {"a"}}
        \cup {Error(c, m, Some(p)) : c \in ErrorCodes, m \in {"a"}, p \in Payloads}

Responses ==
    {Response(Success(p), id) : p \in Payloads, id \in Ids}
        \cup {Response(Failure(e), id) : e \in Errors, id \in Ids}

\* What an array on the wire can hold: requests, notifications, a request
\* written as an array, an object that is no request, a number.
BatchElems ==
    {JObj(<<Member("jsonrpc", JStr("2.0")), Member("method", JStr("a")),
            Member("params", JArr(<<>>)), Member("id", JNum(FALSE, 1, ""))>>),
     JObj(<<Member("jsonrpc", JStr("2.0")), Member("method", JStr("b")),
            Member("params", JArr(<<>>))>>),
     JObj(<<Member("id", JNull), Member("params", JNull),
            Member("method", JStr("b")), Member("jsonrpc", JStr("2.0"))>>),
     JObj(<<Member("jsonrpc", JStr("2.0")), Member("params", JArr(<<>>))>>),
     JArr(<<JStr("2.0"), JStr("a"), JArr(<<>>)>>),
     JNum(FALSE, 1, "")}

RECURSIVE SeqsUpTo(_, _)
SeqsUpTo(S, n) ==
    IF n = 0 THEN {<<>>}
    ELSE SeqsUpTo(S, n - 1)
            \cup {Append(q, e) : q \in {t \in SeqsUpTo(S, n - 1) : Len(t) = n - 1},
                                 e \in S}

BatchDocs == {JArr(q) : q \in SeqsUpTo(BatchElems, MaxBatch)}

\* The requests a caller holds in a MaybeBatchedRequests<P>, for each P.
RequestsOf(P) ==
    {Request(m, p, i) :
        m \in Methods,
        p \in CASE P = "Value" -> {VValue(JArr(<<>>))}
                [] P = "OptU64" -> {VOptNone}
                [] P = "U64" -> {VU64(1)}
                [] P = "UnknownParams" -> {VUnknownParams(Some(JArr(<<>>)))},
        i \in {None, Some(IdNull), Some(IdUint(1))}}

MaybeBatched ==
    UNION {{Single(r) : r \in RequestsOf(P)}
            \cup {Batch(q) : q \in SeqsUpTo(RequestsOf(P), MaxBatch)} : P \in ParamTypes}

PeerDocs ==
    RequestDocs \cup RequestSeqDocs \cup ResponseDocs \cup BatchDocs \cup Scalars

---------------------------------------------------------------------------
(* State machine: one document is put on the wire, by the peer or by one of *)
(* the write_* helpers, and is then decoded by one of the read_* helpers.   *)
(* The codec keeps no state between calls, so one document is the whole     *)
(* behaviour.                                                               *)

NoWire == [kind |-> "nowire"]
Nothing == [what |-> "nothing"]
NotRead == [ok |-> FALSE, err |-> "not_read", what |-> JNull]
NotParsed == [ok |-> FALSE, err |-> "not_parsed", what |-> JNull]

Init ==
    /\ wire = NoWire
    /\ sent = Nothing
    /\ got = NotRead
    /\ parsed = NotParsed
    /\ op = "init"
    /\ types = <<>>

\* The peer puts a document on the wire.
recv ==
    /\ wire = NoWire
    /\ \E doc \in PeerDocs :
            /\ wire' = doc
            /\ sent' = Nothing
            /\ got' = NotRead
            /\ parsed' = NotParsed
            /\ op' = "recv"
            /\ types' = <<>>

\* serde_json::to_string(&id) for an identifier on its own.
write_id ==
    /\ wire = NoWire
    /\ \E id \in Ids :
            /\ wire' = Id_serialize(id)
            /\ sent' = [what |-> "id", id |-> id]
            /\ got' = NotRead
            /\ parsed' = NotParsed
            /\ op' = "write_id"
            /\ types' = <<>>

\* serde_json::from_str::<Id>(wire)
read_id ==
    /\ wire # NoWire
    /\ got = NotRead
    /\ got' = Id_deserialize(JsonDeserializer(wire))
    /\ op' = "read_id"
    /\ types' = <<>>
    /\ UNCHANGED <<wire, sent, parsed>>

\* utils::write_request(method, params, id)
write_request ==
    /\ wire = NoWire
    /\ \E req \in Requests :
            /\ wire' = Request_serialize(req)
            /\ sent' = [what |-> "request", req |-> req]
            /\ got' = NotRead
            /\ parsed' = NotParsed
            /\ op' = "write_request"
            /\ types' = <<>>

\* utils::read_request::<P>(wire)
read_request ==
    /\ wire # NoWire
    /\ got = NotRead
    /\ \E P \in ParamTypes :
            /\ got' = Request_deserialize(P, JsonDeserializer(wire))
            /\ op' = "read_request"
            /\ types' = <<P>>
            /\ UNCHANGED <<wire, sent, parsed>>

\* serde_json::from_slice::<Request<P>>(wire) with the impl Deserialize for
\* Request of lib.rs
raw_read_request ==
    /\ wire # NoWire
    /\ got = NotRead
    /\ \E P \in ParamTypes :
            /\ got' = raw_deserialize_request(P, JsonDeserializer(wire))
            /\ op' = "raw_read_request"
            /\ types' = <<P>>
            /\ UNCHANGED <<wire, sent, parsed>>

\* request.params.parse::<T>() on a request read as Request<UnknownParams>
parse ==
    /\ op = "read_request"
    /\ types = <<"UnknownParams">>
    /\ got.ok
    /\ \E T \in ParseTypes :
            /\ parsed' = UnknownParams_parse(T, got.v.params)
            /\ op' = "parse"
            /\ types' = <<"UnknownParams", T>>
            /\ UNCHANGED <<wire, sent, got>>

\* utils::write_response(result, id)
write_response ==
    /\ wire = NoWire
    /\ \E response \in Responses :
            /\ wire' = Response_serialize(response)
            /\ sent' = [what |-> "response", response |-> response]
            /\ got' = NotRead
            /\ parsed' = NotParsed
            /\ op' = "write_response"
            /\ types' = <<>>

\* utils::write_success(value, id)
write_success ==
    /\ wire = NoWire
    /\ \E value \in Payloads, id \in Ids :
            /\ wire' = Response_serialize(Response(Success(value), id))
            /\ sent' = [what |-> "response", response |-> Response(Success(value), id)]
            /\ got' = NotRead
            /\ parsed' = NotParsed
            /\ op' = "write_success"
            /\ types' = <<>>

\* utils::write_failure(code, message, id, data)
write_failure ==
    /\ wire = NoWire
    /\ \E code \in ErrorCodes, message \in {"a"}, id \in Ids, data \in Payloads :
            /\ wire' = Response_serialize(
                            Response(Failure(Error(code, message, Some(data))), id))
            /\ sent' = [what |-> "response",
                        response |->
                            Response(Failure(Error(code, message, Some(data))), id)]
            /\ got' = NotRead
            /\ parsed' = NotParsed
            /\ op' = "write_failure"
            /\ types' = <<>>

\* utils::write_datalass_failure(code, message, id)
write_datalass_failure ==
    /\ wire = NoWire
    /\ \E code \in ErrorCodes, message \in {"a"}, id \in Ids :
            /\ wire' = Response_serialize(
                            Response(Failure(Error(code, message, None)), id))
            /\ sent' = [what |-> "response",
                        response |-> Response(Failure(Error(code, message, None)), id)]
            /\ got' = NotRead
            /\ parsed' = NotParsed
            /\ op' = "write_datalass_failure"
            /\ types' = <<>>

\* utils::read_response::<T, E>(wire)
read_response ==
    /\ wire # NoWire
    /\ got = NotRead
    /\ \E T \in Types, E \in Types :
            /\ got' = Response_deserialize(T, E, JsonDeserializer(wire))
            /\ op' = "read_response"
            /\ types' = <<T, E>>
            /\ UNCHANGED <<wire, sent, parsed>>

\* serde_json::to_vec(&maybe_batched)
write_maybe_batched ==
    /\ wire = NoWire
    /\ \E m \in MaybeBatched :
            /\ wire' = MaybeBatchedRequests_serialize(m)
            /\ sent' = [what |-> "maybe_batched", value |-> m]
            /\ got' = NotRead
            /\ parsed' = NotParsed
            /\ op' = "write_maybe_batched"
            /\ types' = <<>>

\* serde_json::from_slice::<MaybeBatchedRequests<P>>(wire)
read_maybe_batched ==
    /\ wire # NoWire
    /\ got = NotRead
    /\ \E P \in ParamTypes :
            /\ got' = MaybeBatchedRequests_deserialize(P, JsonDeserializer(wire))
            /\ op' = "read_maybe_batched"
            /\ types' = <<P>>
            /\ UNCHANGED <<wire, sent, parsed>>

Next ==
    \/ read_maybe_batched
    \/ write_maybe_batched
    \/ write_response
    \/ write_success
    \/ write_failure
    \/ write_datalass_failure
    \/ read_response
    \/ recv
    \/ write_id
    \/ read_id
    \/ write_request
    \/ read_request
    \/ raw_read_request
    \/ parse

Spec == Init /\ [][Next]_vars

---------------------------------------------------------------------------
(* What is on the wire, read off the document without any decoder *)

IsObj(j) == j.kind = "obj"
KeyCount(j, k) == Cardinality({i \in DOMAIN j.members : j.members[i].k = k})
HasKey(j, k) == KeyCount(j, k) > 0
\* The value of the first member with key k.
ValueOf(j, k) ==
    j.members[CHOOSE i \in DOMAIN j.members :
                /\ j.members[i].k = k
                /\ \A h \in DOMAIN j.members : j.members[h].k = k => i <= h].v
\* The number a literal denotes, in halves.
LitHalves(lit) ==
    (IF lit.neg THEN -1 ELSE 1) * (2 * lit.mag + (IF lit.frac = "5" THEN 1 ELSE 0))
\* The number a numeric identifier holds, in halves.
IdHalves(id) == IF id.tag = "Float" THEN id.f.halves ELSE 2 * id.n
\* A JSON value an identifier can be written as.
IsIdShape(j) == j.kind \in {"null", "str", "num"}

\* A request object with each required key once, an acceptable value under
\* each, and at most one id, of identifier shape.
WellFormedRequest(j) ==
    /\ IsObj(j)
    /\ \A k \in {"jsonrpc", "method", "params"} : KeyCount(j, k) = 1
    /\ KeyCount(j, "id") <= 1
    /\ ValueOf(j, "jsonrpc") = JStr("2.0")
    /\ ValueOf(j, "method").kind = "str"
    /\ HasKey(j, "id") => IsIdShape(ValueOf(j, "id"))

---------------------------------------------------------------------------
(* Claims *)

\* C1: decoding a request maps the wire id key to three outcomes: key
\* absent gives id = None, key present with null gives Some(Id::Null), key
\* present with a string or a number gives Some of that identifier; and a
\* well-formed request with any of these decodes successfully.
C1_IdKeyThreeWay ==
    (op = "read_request" /\ IsObj(wire)) =>
        /\ (WellFormedRequest(wire) /\ types = <<"Value">>) => got.ok
        /\ got.ok =>
            IF ~HasKey(wire, "id") THEN got.v.id = None
            ELSE LET j == ValueOf(wire, "id") IN
                 /\ got.v.id.some
                 /\ j.kind = "null" => got.v.id.x = IdNull
                 /\ j.kind = "str" => got.v.id.x = IdStr(j.s)
                 /\ j.kind = "num" =>
                        /\ got.v.id.x.tag \in {"Int", "Uint", "Float"}
                        /\ IdHalves(got.v.id.x) = LitHalves(j)

C1_Witness ==
    /\ op = "read_request"
    /\ IsObj(wire)
    /\ HasKey(wire, "id")
    /\ ValueOf(wire, "id") = JNull
    /\ got.ok
    /\ got.v.id = Some(IdNull)

\* C5 (as stated): every identifier of every variant comes back from
\* serialize-then-deserialize as the same variant holding the same value.
C5_EveryIdRoundTrips ==
    (op = "read_id" /\ sent.what = "id") => (got.ok /\ got.v = sent.id)

\* C5 (amended): serialize-then-deserialize of an identifier always succeeds;
\* Null, Str, Uint, a negative Int and a finite Float come back as the same
\* variant with the same value; an Int that is not negative comes back as
\* the Uint of the same value; a NaN or infinite Float comes back as Null.
C5_IdRoundTrip ==
    (op = "read_id" /\ sent.what = "id") =>
        /\ got.ok
        /\ got.v = CASE sent.id.tag = "Int" /\ sent.id.n >= 0 -> IdUint(sent.id.n)
                     [] sent.id.tag = "Float" /\ ~sent.id.f.fin -> IdNull
                     [] OTHER -> sent.id

C5_Witness ==
    /\ op = "read_id"
    /\ sent.what = "id"
    /\ sent.id = IdInt(1)
    /\ got = Ok(IdUint(1))

\* C6: serialize-then-deserialize of a request keeps the presence of the
\* identifier: id = None comes back as None and id = Some(Null) comes back
\* as Some(Null).  The request is decoded with the parameter type it was
\* written with, or with a type that accepts every JSON value.
C6_RequestIdPresenceRoundTrip ==
    (op = "read_request" /\ sent.what = "request"
        /\ types[1] \in {sent.req.params.ty, "Value"}) =>
        /\ got.ok
        /\ got.v.id.some = sent.req.id.some
        /\ sent.req.id = Some(IdNull) => got.v.id = Some(IdNull)
        /\ got.v.method = sent.req.method

C6_Witness ==
    /\ op = "read_request"
    /\ sent.what = "request"
    /\ sent.req.id = None
    /\ got.ok
    /\ got.v.id = None

\* C7: a serialized request is an object holding jsonrpc = "2.0", method and
\* params, each once, and an id member exactly when the request's id is
\* Some; Some(Null) is written as "id": null.
C7_RequestWireShape ==
    op = "write_request" =>
        /\ IsObj(wire)
        /\ \A k \in {"jsonrpc", "method", "params"} : KeyCount(wire, k) = 1
        /\ ValueOf(wire, "jsonrpc") = JStr("2.0")
        /\ ValueOf(wire, "method") = JStr(sent.req.method)
        /\ KeyCount(wire, "id") = (IF sent.req.id.some THEN 1 ELSE 0)
        /\ Len(wire.members) = (IF sent.req.id.some THEN 4 ELSE 3)
        /\ sent.req.id = Some(IdNull) => ValueOf(wire, "id") = JNull

C7_Witness ==
    /\ op = "write_request"
    /\ sent.req.id = None
    /\ ~HasKey(wire, "id")
    /\ HasKey(wire, "params")

\* The document with the value of every jsonrpc member replaced by "2.0".
WithVersion20(j) ==
    JObj([i \in DOMAIN j.members |->
            IF j.members[i].k = "jsonrpc" THEN Member("jsonrpc", JStr("2.0"))
            ELSE j.members[i]])

\* The jsonrpc key is present and holds, at every occurrence, a string other
\* than "2.0".
WrongVersion(j) ==
    /\ IsObj(j)
    /\ HasKey(j, "jsonrpc")
    /\ \A i \in DOMAIN j.members :
            j.members[i].k = "jsonrpc" =>
                (j.members[i].v.kind = "str" /\ j.members[i].v.s # "2.0")

\* C8: a request or response document whose jsonrpc is a string other than
\* "2.0" never decodes successfully, and when the document would decode
\* with "2.0" in its place the error is the invalid-value error carrying the
\* offending string.
C8_VersionMismatch ==
    (op \in {"read_request", "read_response"} /\ WrongVersion(wire)) =>
        /\ ~got.ok
        /\ (IF op = "read_request"
            THEN Request_deserialize(types[1], JsonDeserializer(WithVersion20(wire))).ok
            ELSE Response_deserialize(types[1], types[2],
                                      JsonDeserializer(WithVersion20(wire))).ok)
           => got = Err("invalid_value", ValueOf(wire, "jsonrpc"))

C8_Witness ==
    /\ op = "read_response"
    /\ WrongVersion(wire)
    /\ HasKey(wire, "result")
    /\ HasKey(wire, "id")
    /\ got = Err("invalid_value", JStr("1.0"))

\* C9 (as stated): a request object that lacks the method key or the params
\* key fails to decode with a missing-field error, whatever the parameter
\* type.
C9_MissingKeyAlwaysFails ==
    (op = "read_request" /\ IsObj(wire)
        /\ (~HasKey(wire, "method") \/ ~HasKey(wire, "params"))) =>
        (~got.ok /\ got.err = "missing_field")

\* Nothing else is wrong with the request object: jsonrpc is there once and
\* is a string, no key is repeated, and every value present is one its field
\* accepts.
NoOtherDefect(j, P) ==
    /\ KeyCount(j, "jsonrpc") = 1
    /\ ValueOf(j, "jsonrpc").kind = "str"
    /\ \A k \in {"method", "params", "id"} : KeyCount(j, k) <= 1
    /\ HasKey(j, "method") => ValueOf(j, "method").kind = "str"
    /\ HasKey(j, "params") => Deser(P, JsonDeserializer(ValueOf(j, "params"))).ok
    /\ HasKey(j, "id") => IsIdShape(ValueOf(j, "id"))

\* C9 (amended): a request object that lacks the method key never decodes;
\* one that lacks the params key never decodes unless the parameter type
\* accepts a missing field, as Option<u64> does, and then params is None;
\* when nothing else is wrong with the object the error is the missing-field
\* error naming the first missing key.
C9_MissingKeys ==
    (op = "read_request" /\ IsObj(wire)) =>
        /\ ~HasKey(wire, "method") => ~got.ok
        /\ (~HasKey(wire, "params") /\ types[1] # "OptU64") => ~got.ok
        /\ (~HasKey(wire, "params") /\ got.ok) => got.v.params = VOptNone
        /\ (~HasKey(wire, "params") /\ types[1] = "OptU64" /\ HasKey(wire, "method")
                /\ NoOtherDefect(wire, types[1]) /\ ValueOf(wire, "jsonrpc") = JStr("2.0"))
            => got.ok
        /\ (NoOtherDefect(wire, types[1]) /\ ~HasKey(wire, "method"))
            => got = Err("missing_field", JStr("method"))
        /\ (NoOtherDefect(wire, types[1]) /\ HasKey(wire, "method")
                /\ ~HasKey(wire, "params") /\ types[1] # "OptU64")
            => got = Err("missing_field", JStr("params"))

C9_Witness ==
    /\ op = "read_request"
    /\ IsObj(wire)
    /\ HasKey(wire, "method")
    /\ ~HasKey(wire, "params")
    /\ types = <<"Value">>
    /\ got = Err("missing_field", JStr("params"))

\* An error object as the encoder writes it: an integer code and a string
\* message, each once, and at most one data member.
WellFormedError(j) ==
    /\ IsObj(j)
    /\ KeyCount(j, "code") = 1
    /\ KeyCount(j, "message") = 1
    /\ KeyCount(j, "data") <= 1
    /\ ValueOf(j, "code").kind = "num" /\ ValueOf(j, "code").frac = ""
    /\ ValueOf(j, "message").kind = "str"

\* A response object with jsonrpc "2.0" and an identifier, each once, no
\* repeated result or error, and under error, if present, null or an error
\* object.
ResponseWithVersionAndId(j) ==
    /\ IsObj(j)
    /\ KeyCount(j, "jsonrpc") = 1 /\ ValueOf(j, "jsonrpc") = JStr("2.0")
    /\ KeyCount(j, "id") = 1 /\ IsIdShape(ValueOf(j, "id"))
    /\ KeyCount(j, "result") <= 1
    /\ KeyCount(j, "error") <= 1
    /\ HasKey(j, "error") =>
            (ValueOf(j, "error") = JNull \/ WellFormedError(ValueOf(j, "error")))

BothMessage == JStr("response cannot contain both result and error fields")
NeitherMessage == JStr("response must contain either result or error field")

\* C2: for a response with jsonrpc "2.0" and an id, decoded with payload
\* types that accept every JSON value, the outcome is decided by which of
\* the keys result and error are present, whatever they hold (null too):
\* result alone is a success, error alone a failure, both is the "cannot
\* contain both" error and neither is the "must contain either" error.
C2_PresenceDecidesOutcome ==
    (op = "read_response" /\ ResponseWithVersionAndId(wire)
        /\ types = <<"Value", "Value">>) =>
        CASE HasKey(wire, "result") /\ ~HasKey(wire, "error") ->
                got.ok /\ got.v.result.success
          [] ~HasKey(wire, "result") /\ HasKey(wire, "error") ->
                got.ok /\ ~got.v.result.success
          [] HasKey(wire, "result") /\ HasKey(wire, "error") ->
                got = Err("custom", BothMessage)
          [] OTHER -> got = Err("custom", NeitherMessage)

\* C3: a response object without an id key never decodes successfully, and
\* one whose id key holds null decodes, when it decodes, with id = Null.
C3_ResponseIdRequired ==
    (op = "read_response" /\ IsObj(wire)) =>
        /\ ~HasKey(wire, "id") => ~got.ok
        /\ (got.ok /\ HasKey(wire, "id") /\ ValueOf(wire, "id") = JNull)
            => got.v.id = IdNull

\* The payload types a response can be read back with: the types it was
\* written with, or types that accept every JSON value.
ReadBackTypes(response, T, E) ==
    IF response.result.success
    THEN T \in {response.result.value.ty, "Value"}
    ELSE response.result.error.data.some =>
            E \in {response.result.error.data.x.ty, "Value"}

\* C4: serialize-then-deserialize of a response succeeds and gives back the
\* same outcome variant and the same id.  Stated for the identifiers that
\* themselves come back unchanged (Null, Str and Uint).
C4_ResponseRoundTrip ==
    (op = "read_response" /\ sent.what = "response"
        /\ ReadBackTypes(sent.response, types[1], types[2])
        /\ sent.response.id.tag \in {"Null", "Str", "Uint"}) =>
        /\ got.ok
        /\ got.v.result.success = sent.response.result.success
        /\ got.v.id = sent.response.id

\* C10: decoding a MaybeBatchedRequests dispatches on the top-level shape:
\* an array of n requests gives Batch with n requests in the order of the
\* array (n = 0 and n = 1 included), an object gives Single, and any other
\* shape is a decode error.
C10_BatchDispatch ==
    op = "read_maybe_batched" =>
        CASE wire.kind = "arr" ->
                /\ (types = <<"Value">>
                        /\ \A i \in DOMAIN wire.items : WellFormedRequest(wire.items[i]))
                    => got.ok
                /\ got.ok =>
                    /\ got.v.variant = "Batch"
                    /\ Len(got.v.batch) = Len(wire.items)
                    /\ \A i \in DOMAIN wire.items :
                            IsObj(wire.items[i]) =>
                                /\ JStr(got.v.batch[i].method)
                                        = ValueOf(wire.items[i], "method")
                                /\ got.v.batch[i].id.some = HasKey(wire.items[i], "id")
          [] wire.kind = "obj" ->
                /\ (types = <<"Value">> /\ WellFormedRequest(wire)) => got.ok
                /\ got.ok =>
                    /\ got.v.variant = "Single"
                    /\ JStr(got.v.single.method) = ValueOf(wire, "method")
          [] OTHER -> got = Err("invalid_type", wire)

C10_Witness ==
    /\ op = "read_maybe_batched"
    /\ wire.kind = "arr"
    /\ Len(wire.items) = 1
    /\ IsObj(wire.items[1])
    /\ got.ok
    /\ got.v.variant = "Batch"
    /\ Len(got.v.batch) = 1

\* The identifier a number literal naturally denotes: Float when it has a
\* fraction part or is the negative zero, Int when it is a negative integer,
\* Uint when it is an integer that is not negative.
NaturalId(lit) ==
    IF lit.frac # "" \/ (lit.neg /\ lit.mag = 0) THEN IdFloat(Finite(LitHalves(lit)))
    ELSE IF lit.neg THEN IdInt(-lit.mag)
    ELSE IdUint(lit.mag)

\* C11: decoding an identifier succeeds exactly when the JSON value is null,
\* a string or a number: null gives Id::Null, a string gives Id::Str with
\* the same text, a number gives the Int, Uint or Float its literal
\* denotes; an array, an object or a boolean is a decode error.
C11_IdDecodeShapes ==
    op = "read_id" =>
        CASE wire.kind = "null" -> got = Ok(IdNull)
          [] wire.kind = "str" -> got = Ok(IdStr(wire.s))
          [] wire.kind = "num" -> got = Ok(NaturalId(wire))
          [] OTHER -> (~got.ok /\ got.err = "invalid_type")

C11_Witness ==
    /\ op = "read_id"
    /\ wire = JNum(TRUE, 1, "")
    /\ got = Ok(IdInt(-1))

\* The keys of an object on the wire.
KeysOf(j) == {j.members[i].k : i \in DOMAIN j.members}

\* C12: a serialized Response is an object with the jsonrpc and id keys and
\* exactly one of result and error: result and no error for a success,
\* error and no result for a failure; the error object has code and
\* message, and has data exactly when the error's data is present.
C12_ResponseWireShape ==
    sent.what = "response" =>
        /\ IsObj(wire)
        /\ KeyCount(wire, "jsonrpc") = 1
        /\ KeyCount(wire, "id") = 1
        /\ IF sent.response.result.success
           THEN /\ KeyCount(wire, "result") = 1
                /\ ~HasKey(wire, "error")
           ELSE /\ KeyCount(wire, "error") = 1
                /\ ~HasKey(wire, "result")
                /\ IsObj(ValueOf(wire, "error"))
                /\ KeyCount(ValueOf(wire, "error"), "code") = 1
                /\ KeyCount(ValueOf(wire, "error"), "message") = 1
                /\ KeyCount(ValueOf(wire, "error"), "data")
                        = (IF sent.response.result.error.data.some THEN 1 ELSE 0)

C12_Witness ==
    /\ op = "write_datalass_failure"
    /\ IsObj(wire)
    /\ KeysOf(wire) = {"jsonrpc", "error", "id"}
    /\ KeysOf(ValueOf(wire, "error")) = {"code", "message"}

\* C13: reading a request as Request<UnknownParams> never fails because of
\* the params value: an object decodes exactly when it is a well-formed
\* request, whatever JSON value its params key holds, and the decoded
\* request has the method on the wire and an id exactly when the id key is
\* there; a value that does not fit a target type T shows only as the
\* error of the later parse::<T>() call, which leaves the decoded request
\* as it was.
C13_EnvelopeIgnoresParamsShape ==
    /\ (op = "read_request" /\ types = <<"UnknownParams">> /\ IsObj(wire)) =>
            /\ got.ok <=> WellFormedRequest(wire)
            /\ got.ok =>
                /\ JStr(got.v.method) = ValueOf(wire, "method")
                /\ got.v.id.some = HasKey(wire, "id")
                /\ got.v.params.ty = "UnknownParams"
    /\ op = "parse" => (got.ok /\ parsed # NotParsed)

C13_Witness ==
    /\ op = "parse"
    /\ IsObj(wire)
    /\ ValueOf(wire, "params") = JStr("a")
    /\ types = <<"UnknownParams", "U64">>
    /\ got.ok
    /\ parsed = Err("invalid_type", JStr("a"))

\* C14: an UnknownParams that holds no raw text parses as the empty
\* sequence: parse::<Vec<u64>>() returns Ok of the empty Vec, and for every
\* target type the result is the one of decoding the text [].
C14_NoRawParsesAsEmptySeq ==
    (op = "parse" /\ got.v.params.raw = None) =>
        /\ types[2] = "VecU64" => parsed = Ok(VVecU64(<<>>))
        /\ parsed = Deser(types[2], JsonDeserializer(JArr(<<>>)))

C14_Witness ==
    /\ op = "parse"
    /\ got.v.params.raw = None
    /\ types[2] = "VecU64"
    /\ parsed = Ok(VVecU64(<<>>))

\* C17 (as stated): for a request read as Request<UnknownParams>,
\* parse::<T>() returns what decoding the params value on the wire as T
\* returns, for every params value and every T.
C17_ParseEqualsDirectDecode ==
    (op = "parse" /\ IsObj(wire)) =>
        parsed = Deser(types[2], JsonDeserializer(ValueOf(wire, "params")))

\* C17 (amended): parse::<T>() returns what decoding the params value on the
\* wire as T returns when that value is not null; when it is null,
\* parse::<T>() returns what decoding the empty array as T returns.
C17_ParseEqualsDirectDecodeUnlessNull ==
    (op = "parse" /\ IsObj(wire)) =>
        parsed = Deser(types[2],
                       JsonDeserializer(IF ValueOf(wire, "params") = JNull
                                        THEN JArr(<<>>)
                                        ELSE ValueOf(wire, "params")))

C17_Witness ==
    /\ op = "parse"
    /\ IsObj(wire)
    /\ ValueOf(wire, "params") = JNull
    /\ types[2] = "Value"
    /\ parsed = Ok(VValue(JArr(<<>>)))

\* The requests a MaybeBatchedRequests holds, in order.
RequestsIn(m) == IF m.variant = "Batch" THEN m.batch ELSE <<m.single>>

\* C15: a MaybeBatchedRequests is written as its variant with nothing around
\* it, a Batch as the array of its requests and a Single as the request
\* object; reading the document back with the parameter type it was written
\* with gives the same variant holding as many requests, in the same order.
C15_MaybeBatchedRoundTrip ==
    sent.what = "maybe_batched" =>
        /\ wire = IF sent.value.variant = "Batch"
                  THEN JArr([i \in DOMAIN sent.value.batch |->
                                Request_serialize(sent.value.batch[i])])
                  ELSE Request_serialize(sent.value.single)
        /\ wire.kind = (IF sent.value.variant = "Batch" THEN "arr" ELSE "obj")
        /\ (/\ op = "read_maybe_batched"
            /\ \A i \in DOMAIN RequestsIn(sent.value) :
                    RequestsIn(sent.value)[i].params.ty = types[1]) =>
                /\ got.ok
                /\ got.v.variant = sent.value.variant
                /\ Len(RequestsIn(got.v)) = Len(RequestsIn(sent.value))
                /\ \A i \in DOMAIN RequestsIn(sent.value) :
                        /\ RequestsIn(got.v)[i].method = RequestsIn(sent.value)[i].method
                        /\ RequestsIn(got.v)[i].params = RequestsIn(sent.value)[i].params
                        /\ RequestsIn(got.v)[i].id.some = RequestsIn(sent.value)[i].id.some

C15_Witness ==
    /\ op = "read_maybe_batched"
    /\ sent.what = "maybe_batched"
    /\ sent.value.variant = "Batch"
    /\ Len(sent.value.batch) = 2
    /\ sent.value.batch[1].method # sent.value.batch[2].method
    /\ got.ok
    /\ got.v.variant = "Batch"
    /\ Len(got.v.batch) = 2
    /\ got.v.batch[1].method = sent.value.batch[1].method
    /\ got.v.batch[2].method = sent.value.batch[2].method

\* C16: the request decoder of raw.rs, which lib.rs uses, and the one of
\* request.rs agree on every document: both fail, or both succeed with the
\* same method, params and id; so both read an id of null as Some(Id::Null)
\* and a missing id as None.
C16_DecodersAgree ==
    op = "raw_read_request" =>
        /\ got.ok = Request_deserialize(types[1], JsonDeserializer(wire)).ok
        /\ got.ok => got.v = Request_deserialize(types[1], JsonDeserializer(wire)).v
        /\ (got.ok /\ IsObj(wire) /\ HasKey(wire, "id") /\ ValueOf(wire, "id") = JNull)
                => got.v.id = Some(IdNull)

=============================================================================
